---------------------------- MODULE Spec2Model ----------------------------
(***************************************************************************)
(* ratelim: a registry of per-key rate limiters (syncmap.SyncMap guarded   *)
(* by one sync.RWMutex) and the PerKeyRoundTripper that admits each        *)
(* request through its key's limiter before forwarding it.                 *)
(*                                                                         *)
(* Every goroutine is a process p with a program position pc[p] inside the *)
(* method it is executing.  One action is one step between two lock        *)
(* operations of the code, so that every interleaving of the optimistic    *)
(* shared-lock read and of the exclusive-lock re-check is explored.        *)
(* sync.RWMutex is modelled without writer preference: a pending Lock does *)
(* not hold back new readers.  That only adds interleavings.               *)
(***************************************************************************)
EXTENDS Integers, Sequences, FiniteSets, TLC

\* ------------------------------------------------------------- bounds
NumProcs == 2
NumKeys == 2
MaxVal == 1
MaxOps == 4
MaxBurst == 1
MaxTime == 1
MaxRequests == 3

Procs == 1..NumProcs
Keys == 1..NumKeys
\* The zero value of the value type V (nil for *rate.Limiter).
Zero == 0
Vals == Zero..MaxVal

VARIABLES
    wrapped,    \* SyncMap.wrapped: key -> entry
    writer,     \* SyncMap.mux: the goroutine holding Lock, or 0
    readers,    \* SyncMap.mux: the goroutines holding RLock
    pc,         \* each goroutine's position
    loc,        \* each goroutine's arguments and named results
    ret,        \* what each goroutine's last call returned
    rng,        \* each goroutine's Range call in progress, if any
    budget,     \* calls, and statements of Call's f, that may still be issued
    nextId,     \* history: the next instance number to hand out
    taken,      \* history: instances LoadAndDelete returned with loaded
    preClear,   \* history: keys a Clear discarded, not inserted since
    dflt,       \* PerKeyRoundTripper.defaultLimit, defaultBurst
    dmux,       \* PerKeyRoundTripper.mux: its Lock holder or 0, its RLock holders
    logger,     \* PerKeyRoundTripper.Logger
    lims,       \* the rate limiters constructed so far; a *rate.Limiter is an index
    now,        \* the clock
    rt,         \* each goroutine's RoundTrip call
    sd,         \* each goroutine's SetLimiterDefaults or LimiterDefaults call
    given,      \* history: the (limit, burst) pairs given to the constructor and to SetLimiterDefaults
    lastSet,    \* history: the pair of the constructor or of the last SetLimiterDefaults that returned
    born        \* history: for each limiter, lastSet when it was constructed

\* The state of the PerKeyRoundTripper around the map, and of its limiters.
cvars == <<sd, given, lastSet, born>>

dvars == <<dflt, dmux, logger, lims, now, rt, cvars>>

vars == <<wrapped, writer, readers, pc, loc, ret, rng, budget, nextId, taken, preClear, dvars>>

\* A map slot.  Indexing a Go map with a missing key yields the zero value
\* and ok = false: an absent slot reads as (Zero, FALSE).  id tells apart two
\* installs of equal values; the code never reads it.
NoEntry == [present |-> FALSE, val |-> Zero, id |-> 0]

NewEntry(v, i) == [present |-> TRUE, val |-> v, id |-> i]

Dom(m) == {k \in Keys : m[k].present}

\* make(map[K]V)
EmptyMap == [k \in Keys |-> NoEntry]

LocIdle == [op |-> "none", key |-> 0, value |-> Zero, old |-> Zero, got |-> NoEntry, n |-> 0]

NoRet == [op |-> "none", key |-> 0, val |-> Zero, id |-> 0, ok |-> FALSE, keys |-> <<>>]

NoRange == [state |-> "none", keys |-> <<>>, visited |-> <<>>, stable |-> {}]

\* A deletion ends "present for the whole Range call" for the keys it removes.
RangeAfter(m) == [q \in Procs |-> [rng[q] EXCEPT !.stable = @ \cap Dom(m)]]

\* The keys whose slot m fills with an instance that was not there before.
InsertedBy(m) == {k \in Keys : m[k].present /\ m[k] # wrapped[k]}

New ==
    /\ wrapped = EmptyMap
    /\ writer = 0
    /\ readers = {}

\* rate.Inf, the limit that allows every event.
Inf == -1

Limits == {Inf, 0, 1}

Bursts == 0..MaxBurst

NoRoundTrip == [state |-> "none", key |-> 0, lim |-> 0, start |-> 0, wake |-> 0, err |-> "none",
                cancelled |-> FALSE, sent |-> FALSE, traced |-> FALSE, result |-> "none"]

NoDefaultsCall == [state |-> "none", limit |-> 0, burst |-> 0]

\* NewPerKeyRoundTripper(defaultLimit, defaultBurst, keyFunc, roundTripper); the
\* Logger field is nil unless the caller sets it.
NewPerKeyRoundTripper(defaultLimit, defaultBurst) ==
    /\ dflt = [limit |-> defaultLimit, burst |-> defaultBurst]
    /\ dmux = [writer |-> 0, readers |-> {}]
    /\ logger = "nil"
    /\ lims = <<>>
    /\ now = 0
    /\ rt = [p \in Procs |-> NoRoundTrip]
    /\ sd = [p \in Procs |-> NoDefaultsCall]
    /\ given = {<<defaultLimit, defaultBurst>>}
    /\ lastSet = <<defaultLimit, defaultBurst>>
    /\ born = <<>>

\* A map of its own, used by goroutines that call its methods.
Init ==
    /\ New
    /\ pc = [p \in Procs |-> "idle"]
    /\ loc = [p \in Procs |-> LocIdle]
    /\ ret = [p \in Procs |-> NoRet]
    /\ rng = [p \in Procs |-> NoRange]
    /\ budget = MaxOps
    /\ nextId = 1
    /\ taken = {}
    /\ preClear = {}
    /\ NewPerKeyRoundTripper(1, 1)


\* ------------------------------------------------------- sync.RWMutex

\* m.mux.RLock(): shared access, granted while no goroutine holds Lock.
RLock(p) ==
    /\ pc[p] \in {"Load.RLock", "Keys.RLock"}
    /\ writer = 0
    /\ readers' = readers \cup {p}
    /\ pc' = [pc EXCEPT ![p] = IF pc[p] = "Load.RLock" THEN "Load.read" ELSE "Keys.read"]
    /\ UNCHANGED <<wrapped, writer, loc, ret, rng, budget, nextId, taken, preClear>>
    /\ UNCHANGED dvars

LockPcs == {"Swap.Lock", "LoadAndDelete.Lock", "LoadOrStore.Lock", "CompareAndSwap.Lock",
            "CompareAndDelete.Lock", "Clear.Lock", "Call.Lock"}

BodyOf(at) ==
    CASE at = "Swap.Lock" -> "Swap.body"
      [] at = "LoadAndDelete.Lock" -> "LoadAndDelete.body"
      [] at = "LoadOrStore.Lock" -> "LoadOrStore.body"
      [] at = "CompareAndSwap.Lock" -> "CompareAndSwap.body"
      [] at = "CompareAndDelete.Lock" -> "CompareAndDelete.body"
      [] at = "Clear.Lock" -> "Clear.body"
      [] OTHER -> "Call.body"

\* Lock with Call taking the mutex shared (RLock) rather than exclusive.
LockSharedInCall(p) ==
    /\ pc[p] \in LockPcs
    /\ writer = 0
    /\ IF pc[p] = "Call.Lock"
       THEN readers' = readers \cup {p} /\ UNCHANGED writer
       ELSE readers = {} /\ writer' = p /\ UNCHANGED readers
    /\ pc' = [pc EXCEPT ![p] = BodyOf(pc[p])]
    /\ UNCHANGED <<wrapped, loc, ret, rng, budget, nextId, taken, preClear>>
    /\ UNCHANGED dvars

\* m.mux.Lock(): exclusive access, granted while nobody holds the mutex.
Lock(p) ==
    /\ pc[p] \in LockPcs
    /\ writer = 0
    /\ readers = {}
    /\ writer' = p
    /\ pc' = [pc EXCEPT ![p] = BodyOf(pc[p])]
    /\ UNCHANGED <<wrapped, readers, loc, ret, rng, budget, nextId, taken, preClear>>
    /\ UNCHANGED dvars

\* defer m.mux.RUnlock()
RUnlock(p) ==
    /\ p \in readers
    /\ readers' = readers \ {p}
    /\ UNCHANGED writer

\* defer m.mux.Unlock()
Unlock(p) ==
    /\ writer = p
    /\ writer' = 0
    /\ UNCHANGED readers

\* ------------------------------------------------------ calls, returns

\* p enters method op of the map, at its first lock operation.
Enter(p, op, k, v, o, at) ==
    /\ pc[p] = "idle"
    /\ pc' = [pc EXCEPT ![p] = at]
    /\ loc' = [loc EXCEPT ![p] = [LocIdle EXCEPT !.op = op, !.key = k, !.value = v, !.old = o]]
    /\ ret' = [ret EXCEPT ![p] = NoRet]
    /\ UNCHANGED <<wrapped, writer, readers, nextId, taken, preClear>>

\* A goroutine that is idle, or whose Range callback is running, calls a
\* method of the map.
Begin(p, op, k, v, o, at) ==
    /\ rt[p].state = "none"
    /\ budget > 0
    /\ budget' = budget - 1
    /\ Enter(p, op, k, v, o, at)
    /\ UNCHANGED dvars

Return(p, r) ==
    /\ pc' = [pc EXCEPT ![p] = "idle"]
    /\ loc' = [loc EXCEPT ![p] = LocIdle]
    /\ ret' = [ret EXCEPT ![p] = r]

\* Go to the next position of the same call, keeping what Load read.
Goto(p, at, e) ==
    /\ pc' = [pc EXCEPT ![p] = at]
    /\ loc' = [loc EXCEPT ![p].got = e]
    /\ UNCHANGED ret

Result(p, e, ok) == [NoRet EXCEPT !.op = loc[p].op, !.key = loc[p].key, !.val = e.val, !.id = e.id, !.ok = ok]

\* The map becomes m.
Mutate(m) ==
    /\ wrapped' = m
    /\ rng' = RangeAfter(m)
    /\ preClear' = preClear \ InsertedBy(m)

\* --------------------------------------------------------------- Load

StartLoad(p) ==
    /\ \E k \in Keys : Begin(p, "Load", k, Zero, Zero, "Load.RLock")
    /\ UNCHANGED rng

\* value, ok = m.wrapped[key], in Load called as a method of its own.
LoadReturn(p) ==
    /\ pc[p] = "Load.read"
    /\ loc[p].op = "Load"
    /\ RUnlock(p)
    /\ Return(p, Result(p, wrapped[loc[p].key], wrapped[loc[p].key].present))
    /\ UNCHANGED <<wrapped, rng, budget, nextId, taken, preClear>>
    /\ UNCHANGED dvars

\* -------------------------------------------------------- Store, Swap

StartStore(p) ==
    /\ \E k \in Keys, v \in Vals : Begin(p, "Store", k, v, Zero, "Swap.Lock")
    /\ UNCHANGED rng

StartSwap(p) ==
    /\ \E k \in Keys, v \in Vals : Begin(p, "Swap", k, v, Zero, "Swap.Lock")
    /\ UNCHANGED rng

\* previous, loaded = m.wrapped[key]; m.wrapped[key] = value
SwapBody(p) ==
    /\ pc[p] = "Swap.body"
    /\ LET k == loc[p].key
           e == wrapped[k]
       IN /\ Mutate([wrapped EXCEPT ![k] = NewEntry(loc[p].value, nextId)])
          /\ Return(p, IF loc[p].op = "Store" THEN [NoRet EXCEPT !.op = "Store", !.key = k]
                                              ELSE Result(p, e, e.present))
    /\ nextId' = nextId + 1
    /\ Unlock(p)
    /\ UNCHANGED <<budget, taken>>
    /\ UNCHANGED dvars

\* ----------------------------------------------- Delete, LoadAndDelete

StartDelete(p) ==
    /\ \E k \in Keys : Begin(p, "Delete", k, Zero, Zero, "Load.RLock")
    /\ UNCHANGED rng

StartLoadAndDelete(p) ==
    /\ \E k \in Keys : Begin(p, "LoadAndDelete", k, Zero, Zero, "Load.RLock")
    /\ UNCHANGED rng

\* if value, loaded = m.Load(key); !loaded { return value, loaded }
LoadAndDeleteLoad(p) ==
    /\ pc[p] = "Load.read"
    /\ loc[p].op \in {"Delete", "LoadAndDelete"}
    /\ RUnlock(p)
    /\ LET e == wrapped[loc[p].key]
       IN IF ~e.present THEN Return(p, Result(p, e, FALSE))
                        ELSE Goto(p, "LoadAndDelete.Lock", e)
    /\ UNCHANGED <<wrapped, rng, budget, nextId, taken, preClear>>
    /\ UNCHANGED dvars

\* LoadAndDeleteBody returning what the optimistic Load read.
LoadAndDeleteBodyStale(p) ==
    /\ pc[p] = "LoadAndDelete.body"
    /\ LET e == loc[p].got
       IN /\ Mutate([wrapped EXCEPT ![loc[p].key] = NoEntry])
          /\ Return(p, Result(p, e, e.present))
          /\ taken' = IF loc[p].op = "LoadAndDelete" /\ e.present THEN taken \cup {e.id} ELSE taken
    /\ Unlock(p)
    /\ UNCHANGED <<budget, nextId>>
    /\ UNCHANGED dvars

\* value, loaded = m.wrapped[key]; delete(m.wrapped, key)
LoadAndDeleteBody(p) ==
    /\ pc[p] = "LoadAndDelete.body"
    /\ LET k == loc[p].key
           e == wrapped[k]
       IN /\ Mutate([wrapped EXCEPT ![k] = NoEntry])
          /\ Return(p, Result(p, e, e.present))
          /\ taken' = IF loc[p].op = "LoadAndDelete" /\ e.present THEN taken \cup {e.id} ELSE taken
    /\ Unlock(p)
    /\ UNCHANGED <<budget, nextId>>
    /\ UNCHANGED dvars

\* -------------------------------------------------------- LoadOrStore

StartLoadOrStore(p) ==
    /\ \E k \in Keys, v \in Vals : Begin(p, "LoadOrStore", k, v, Zero, "Load.RLock")
    /\ UNCHANGED rng

\* if actual, loaded = m.Load(key); loaded { return actual, loaded }
LoadOrStoreLoad(p) ==
    /\ pc[p] = "Load.read"
    /\ loc[p].op = "LoadOrStore"
    /\ RUnlock(p)
    /\ LET e == wrapped[loc[p].key]
       IN IF e.present THEN Return(p, Result(p, e, TRUE))
                       ELSE Goto(p, "LoadOrStore.Lock", e)
    /\ UNCHANGED <<wrapped, rng, budget, nextId, taken, preClear>>
    /\ UNCHANGED dvars

\* LoadOrStoreBody without the re-check under the exclusive lock.
LoadOrStoreBodyNoRecheck(p) ==
    /\ pc[p] = "LoadOrStore.body"
    /\ LET new == NewEntry(loc[p].value, nextId)
       IN /\ Mutate([wrapped EXCEPT ![loc[p].key] = new])
          /\ nextId' = nextId + 1
          /\ Return(p, Result(p, new, FALSE))
    /\ Unlock(p)
    /\ UNCHANGED <<budget, taken>>
    /\ UNCHANGED dvars

\* LoadOrStoreBody returning the caller's value, not the stored one, when the
\* re-check finds the key.
LoadOrStoreBodyReturnsOwn(p) ==
    /\ pc[p] = "LoadOrStore.body"
    /\ LET k == loc[p].key
           e == wrapped[k]
           new == NewEntry(loc[p].value, nextId)
       IN IF e.present
          THEN /\ Return(p, Result(p, NewEntry(loc[p].value, 0), TRUE))
               /\ UNCHANGED <<wrapped, rng, nextId, preClear>>
          ELSE /\ Mutate([wrapped EXCEPT ![k] = new])
               /\ nextId' = nextId + 1
               /\ Return(p, Result(p, new, FALSE))
    /\ Unlock(p)
    /\ UNCHANGED <<budget, taken>>
    /\ UNCHANGED dvars

\* if actual, loaded = m.wrapped[key]; loaded { return } m.wrapped[key] = value
LoadOrStoreBody(p) ==
    /\ pc[p] = "LoadOrStore.body"
    /\ LET k == loc[p].key
           e == wrapped[k]
           new == NewEntry(loc[p].value, nextId)
       IN IF e.present
          THEN /\ Return(p, Result(p, e, TRUE))
               /\ UNCHANGED <<wrapped, rng, nextId, preClear>>
          ELSE /\ Mutate([wrapped EXCEPT ![k] = new])
               /\ nextId' = nextId + 1
               /\ Return(p, Result(p, new, FALSE))
    /\ Unlock(p)
    /\ UNCHANGED <<budget, taken>>
    /\ UNCHANGED dvars

\* ----------------------------------------------------- CompareAndSwap

StartCompareAndSwap(p) ==
    /\ \E k \in Keys, o \in Vals, v \in Vals : Begin(p, "CompareAndSwap", k, v, o, "Load.RLock")
    /\ UNCHANGED rng

\* if value, _ := m.Load(key); any(value) != any(old) { return false }
CompareAndSwapLoad(p) ==
    /\ pc[p] = "Load.read"
    /\ loc[p].op = "CompareAndSwap"
    /\ RUnlock(p)
    /\ LET e == wrapped[loc[p].key]
       IN IF e.val # loc[p].old THEN Return(p, Result(p, NoEntry, FALSE))
                                ELSE Goto(p, "CompareAndSwap.Lock", e)
    /\ UNCHANGED <<wrapped, rng, budget, nextId, taken, preClear>>
    /\ UNCHANGED dvars

\* if value, _ := m.wrapped[key]; any(value) != any(old) { return false }
\* m.wrapped[key] = new
CompareAndSwapBody(p) ==
    /\ pc[p] = "CompareAndSwap.body"
    /\ LET k == loc[p].key
           e == wrapped[k]
           new == NewEntry(loc[p].value, nextId)
       IN IF e.val # loc[p].old
          THEN /\ Return(p, Result(p, NoEntry, FALSE))
               /\ UNCHANGED <<wrapped, rng, nextId, preClear>>
          ELSE /\ Mutate([wrapped EXCEPT ![k] = new])
               /\ nextId' = nextId + 1
               /\ Return(p, Result(p, new, TRUE))
    /\ Unlock(p)
    /\ UNCHANGED <<budget, taken>>
    /\ UNCHANGED dvars

\* -------------------------------------------------- CompareAndDelete

StartCompareAndDelete(p) ==
    /\ \E k \in Keys, o \in Vals : Begin(p, "CompareAndDelete", k, Zero, o, "Load.RLock")
    /\ UNCHANGED rng

\* if value, loaded := m.Load(key); !loaded || any(value) != any(old) { return false }
CompareAndDeleteLoad(p) ==
    /\ pc[p] = "Load.read"
    /\ loc[p].op = "CompareAndDelete"
    /\ RUnlock(p)
    /\ LET e == wrapped[loc[p].key]
       IN IF ~e.present \/ e.val # loc[p].old THEN Return(p, Result(p, NoEntry, FALSE))
                                              ELSE Goto(p, "CompareAndDelete.Lock", e)
    /\ UNCHANGED <<wrapped, rng, budget, nextId, taken, preClear>>
    /\ UNCHANGED dvars

\* if value, loaded := m.wrapped[key]; !loaded || any(value) != any(old) { return false }
\* delete(m.wrapped, key)
CompareAndDeleteBody(p) ==
    /\ pc[p] = "CompareAndDelete.body"
    /\ LET k == loc[p].key
           e == wrapped[k]
       IN IF ~e.present \/ e.val # loc[p].old
          THEN /\ Return(p, Result(p, NoEntry, FALSE))
               /\ UNCHANGED <<wrapped, rng, preClear>>
          ELSE /\ Mutate([wrapped EXCEPT ![k] = NoEntry])
               /\ Return(p, Result(p, e, TRUE))
    /\ Unlock(p)
    /\ UNCHANGED <<budget, nextId, taken>>
    /\ UNCHANGED dvars

\* -------------------------------------------------------- Keys, Range

\* The orders in which ranging over a Go map may yield the keys S.
Orders(S) == {s \in [1..Cardinality(S) -> S] : \A i, j \in 1..Cardinality(S) : i # j => s[i] # s[j]}

StartKeys(p) ==
    /\ Begin(p, "Keys", 0, Zero, Zero, "Keys.RLock")
    /\ UNCHANGED rng

\* for key, _ := range m.wrapped { keys = append(keys, key) }, in Keys called
\* as a method of its own.
KeysReturn(p) ==
    /\ pc[p] = "Keys.read"
    /\ loc[p].op = "Keys"
    /\ RUnlock(p)
    /\ \E ks \in Orders(Dom(wrapped)) : Return(p, [NoRet EXCEPT !.op = "Keys", !.keys = ks])
    /\ UNCHANGED <<wrapped, rng, budget, nextId, taken, preClear>>
    /\ UNCHANGED dvars

\* Range is called; stable starts as the keys present at the call.
StartRange(p) ==
    /\ rng[p].state = "none"
    /\ Begin(p, "Range", 0, Zero, Zero, "Keys.RLock")
    /\ rng' = [rng EXCEPT ![p] = [NoRange EXCEPT !.state = "iter", !.stable = Dom(wrapped)]]

\* The for loop of Range goes on to the keys ks: it ends when there is none
\* left, and calls m.Load(k) for the first of them otherwise.
RangeLoop(p, ks) ==
    IF ks = <<>>
    THEN /\ rng' = [rng EXCEPT ![p] = NoRange]
         /\ Return(p, [NoRet EXCEPT !.op = "Range"])
    ELSE /\ rng' = [rng EXCEPT ![p].state = "iter", ![p].keys = ks]
         /\ pc' = [pc EXCEPT ![p] = "Load.RLock"]
         /\ loc' = [loc EXCEPT ![p] = [LocIdle EXCEPT !.op = "Range", !.key = Head(ks)]]
         /\ UNCHANGED ret

\* for _, k := range m.Keys()
RangeKeys(p) ==
    /\ pc[p] = "Keys.read"
    /\ loc[p].op = "Range"
    /\ RUnlock(p)
    /\ \E ks \in Orders(Dom(wrapped)) : RangeLoop(p, ks)
    /\ UNCHANGED <<wrapped, budget, nextId, taken, preClear>>
    /\ UNCHANGED dvars

\* RangeLoad leaving the loop, instead of going on, at a key that is gone.
RangeLoadBreaks(p) ==
    /\ pc[p] = "Load.read"
    /\ loc[p].op = "Range"
    /\ RUnlock(p)
    /\ IF ~wrapped[loc[p].key].present
       THEN RangeLoop(p, <<>>)
       ELSE /\ rng' = [rng EXCEPT ![p].state = "visit", ![p].visited = Append(@, loc[p].key)]
            /\ pc' = [pc EXCEPT ![p] = "idle"]
            /\ loc' = [loc EXCEPT ![p] = LocIdle]
            /\ UNCHANGED ret
    /\ UNCHANGED <<wrapped, budget, nextId, taken, preClear>>
    /\ UNCHANGED dvars

\* RangeLoad keeping the shared lock while f runs.
RangeLoadHoldsLock(p) ==
    /\ pc[p] = "Load.read"
    /\ loc[p].op = "Range"
    /\ IF ~wrapped[loc[p].key].present
       THEN RangeLoop(p, Tail(rng[p].keys)) /\ RUnlock(p)
       ELSE /\ rng' = [rng EXCEPT ![p].state = "visit", ![p].visited = Append(@, loc[p].key)]
            /\ pc' = [pc EXCEPT ![p] = "idle"]
            /\ loc' = [loc EXCEPT ![p] = LocIdle]
            /\ UNCHANGED <<ret, writer, readers>>
    /\ UNCHANGED <<wrapped, budget, nextId, taken, preClear>>
    /\ UNCHANGED dvars

\* v, ok := m.Load(k); if !ok { continue }; f(k, v) is entered.
RangeLoad(p) ==
    /\ pc[p] = "Load.read"
    /\ loc[p].op = "Range"
    /\ RUnlock(p)
    /\ IF ~wrapped[loc[p].key].present
       THEN RangeLoop(p, Tail(rng[p].keys))
       ELSE /\ rng' = [rng EXCEPT ![p].state = "visit", ![p].visited = Append(@, loc[p].key)]
            /\ pc' = [pc EXCEPT ![p] = "idle"]
            /\ loc' = [loc EXCEPT ![p] = LocIdle]
            /\ UNCHANGED ret
    /\ UNCHANGED <<wrapped, budget, nextId, taken, preClear>>
    /\ UNCHANGED dvars

\* f(k, v) returns: if !f(k, v) { break }
VisitReturn(p) ==
    /\ rng[p].state = "visit"
    /\ pc[p] = "idle"
    /\ \E cont \in BOOLEAN : RangeLoop(p, IF cont THEN Tail(rng[p].keys) ELSE <<>>)
    /\ UNCHANGED <<wrapped, writer, readers, budget, nextId, taken, preClear>>
    /\ UNCHANGED dvars

\* -------------------------------------------------------------- Clear

StartClear(p) ==
    /\ Begin(p, "Clear", 0, Zero, Zero, "Clear.Lock")
    /\ UNCHANGED rng

\* ClearBody deleting the entries one by one and stopping after the first.
ClearBodyPartial(p) ==
    /\ pc[p] = "Clear.body"
    /\ LET m == [k \in Keys |-> IF \A j \in Dom(wrapped) : k <= j THEN NoEntry ELSE wrapped[k]]
       IN /\ wrapped' = m
          /\ rng' = RangeAfter(m)
    /\ preClear' = preClear \cup Dom(wrapped)
    /\ Return(p, [NoRet EXCEPT !.op = "Clear"])
    /\ Unlock(p)
    /\ UNCHANGED <<budget, nextId, taken>>
    /\ UNCHANGED dvars

\* m.wrapped = make(map[K]V)
ClearBody(p) ==
    /\ pc[p] = "Clear.body"
    /\ wrapped' = EmptyMap
    /\ rng' = RangeAfter(EmptyMap)
    /\ preClear' = preClear \cup Dom(wrapped)
    /\ Return(p, [NoRet EXCEPT !.op = "Clear"])
    /\ Unlock(p)
    /\ UNCHANGED <<budget, nextId, taken>>
    /\ UNCHANGED dvars

\* --------------------------------------------------------------- Call

StartCall(p) ==
    /\ Begin(p, "Call", 0, Zero, Zero, "Call.Lock")
    /\ UNCHANGED rng

\* f(m.wrapped): one statement of f on the raw map, an assignment or a delete.
CallFn(p) ==
    /\ pc[p] = "Call.body"
    /\ budget > 0
    /\ budget' = budget - 1
    /\ \E k \in Keys :
          \/ /\ \E v \in Vals : Mutate([wrapped EXCEPT ![k] = NewEntry(v, nextId)])
             /\ nextId' = nextId + 1
          \/ /\ Mutate([wrapped EXCEPT ![k] = NoEntry])
             /\ UNCHANGED nextId
    /\ loc' = [loc EXCEPT ![p].n = @ + 1]
    /\ UNCHANGED <<writer, readers, pc, ret, taken>>
    /\ UNCHANGED dvars

\* f returns, and Call with it.
CallReturn(p) ==
    /\ pc[p] = "Call.body"
    /\ Unlock(p)
    /\ Return(p, [NoRet EXCEPT !.op = "Call"])
    /\ UNCHANGED <<wrapped, rng, budget, nextId, taken, preClear>>
    /\ UNCHANGED dvars

\* ------------------------------------------------------ specification

Next ==
    \E p \in Procs :
        \/ RLock(p) \/ Lock(p)
        \/ StartLoad(p) \/ LoadReturn(p)
        \/ StartStore(p) \/ StartSwap(p) \/ SwapBody(p)
        \/ StartDelete(p) \/ StartLoadAndDelete(p) \/ LoadAndDeleteLoad(p) \/ LoadAndDeleteBody(p)
        \/ StartLoadOrStore(p) \/ LoadOrStoreLoad(p) \/ LoadOrStoreBody(p)
        \/ StartCompareAndSwap(p) \/ CompareAndSwapLoad(p) \/ CompareAndSwapBody(p)
        \/ StartCompareAndDelete(p) \/ CompareAndDeleteLoad(p) \/ CompareAndDeleteBody(p)
        \/ StartKeys(p) \/ KeysReturn(p)
        \/ StartRange(p) \/ RangeKeys(p) \/ RangeLoad(p) \/ VisitReturn(p)
        \/ StartClear(p) \/ ClearBody(p)
        \/ StartCall(p) \/ CallFn(p) \/ CallReturn(p)

Spec == Init /\ [][Next]_vars

\* Goroutines that only race LoadOrStore and Load on a map that starts empty:
\* no Delete, Swap, Clear or Call runs beside them.
NextLoadOrStore ==
    \E p \in Procs :
        \/ RLock(p) \/ Lock(p)
        \/ StartLoad(p) \/ LoadReturn(p)
        \/ StartLoadOrStore(p) \/ LoadOrStoreLoad(p) \/ LoadOrStoreBody(p)

SpecLoadOrStore == Init /\ [][NextLoadOrStore]_vars

\* -------------------------------------------------- rate.Limiter
\* golang.org/x/time/rate is not part of the sources; the limiter is the token
\* bucket of the specification (section 4.1), in whole tokens and clock ticks.

\* rate.NewLimiter(limit, burst): a full bucket.
NewLimiter(limit, burst) == [limit |-> limit, burst |-> burst, tokens |-> burst, last |-> now]

Min(a, b) == IF a <= b THEN a ELSE b

\* The token level of bucket b at time t: tokens = min(capacity, tokens + elapsed * rate).
Level(b, t) == Min(b.burst, b.tokens + (t - b.last) * b.limit)

\* The refill accounting at time t.
Refill(b, t) == [b EXCEPT !.tokens = Level(b, t), !.last = t]

\* The ticks until bucket b, refilled, holds one token; 0 stands for never.
WaitFor(b) == IF b.limit = 0 THEN 0 ELSE (1 - b.tokens + b.limit - 1) \div b.limit

\* WaitBegin treating the unlimited rate as any other: it looks at the tokens.
WaitBeginInfCountsTokens(p) ==
    /\ rt[p].state = "Wait"
    /\ LET b == [lims[rt[p].lim] EXCEPT !.last = now]
       IN IF b.tokens >= 1
          THEN /\ lims' = [lims EXCEPT ![rt[p].lim] = [b EXCEPT !.tokens = @ - 1]]
               /\ rt' = [rt EXCEPT ![p].state = "Waited", ![p].err = "nil"]
          ELSE /\ lims' = [lims EXCEPT ![rt[p].lim] = b]
               /\ rt' = [rt EXCEPT ![p].state = "Suspended", ![p].wake = now + 1]
    /\ UNCHANGED <<wrapped, writer, readers, pc, loc, ret, rng, budget, nextId, taken, preClear>>
    /\ UNCHANGED <<dflt, dmux, logger, now>>
    /\ UNCHANGED cvars

\* WaitBegin giving a wait of one tick on a bucket that never refills.
WaitBeginZeroRateWakes(p) ==
    /\ rt[p].state = "Wait"
    /\ LET b == Refill(lims[rt[p].lim], now)
       IN IF lims[rt[p].lim].limit = Inf
          THEN /\ rt' = [rt EXCEPT ![p].state = "Waited", ![p].err = "nil"]
               /\ UNCHANGED lims
          ELSE IF b.tokens >= 1
          THEN /\ lims' = [lims EXCEPT ![rt[p].lim] = [b EXCEPT !.tokens = @ - 1]]
               /\ rt' = [rt EXCEPT ![p].state = "Waited", ![p].err = "nil"]
          ELSE /\ lims' = [lims EXCEPT ![rt[p].lim] = b]
               /\ rt' = [rt EXCEPT ![p].state = "Suspended", ![p].wake = now + 1]
    /\ UNCHANGED <<wrapped, writer, readers, pc, loc, ret, rng, budget, nextId, taken, preClear>>
    /\ UNCHANGED <<dflt, dmux, logger, now>>
    /\ UNCHANGED cvars

\* Wait(1, cancelSignal) is entered: the unlimited rate admits at once; a
\* refilled bucket with a token is debited and admits at once; otherwise the
\* caller is suspended for the computed wait.
WaitBegin(p) ==
    /\ rt[p].state = "Wait"
    /\ LET b == Refill(lims[rt[p].lim], now)
       IN IF lims[rt[p].lim].limit = Inf
          THEN /\ rt' = [rt EXCEPT ![p].state = "Waited", ![p].err = "nil"]
               /\ UNCHANGED lims
          ELSE IF b.tokens >= 1
          THEN /\ lims' = [lims EXCEPT ![rt[p].lim] = [b EXCEPT !.tokens = @ - 1]]
               /\ rt' = [rt EXCEPT ![p].state = "Waited", ![p].err = "nil"]
          ELSE /\ lims' = [lims EXCEPT ![rt[p].lim] = b]
               /\ rt' = [rt EXCEPT ![p].state = "Suspended",
                                   ![p].wake = IF b.limit = 0 THEN -1 ELSE now + WaitFor(b)]
    /\ UNCHANGED <<wrapped, writer, readers, pc, loc, ret, rng, budget, nextId, taken, preClear>>
    /\ UNCHANGED <<dflt, dmux, logger, now>>
    /\ UNCHANGED cvars

\* The wait expires: Wait debits one token and returns success.
WaitExpire(p) ==
    /\ rt[p].state = "Suspended"
    /\ rt[p].wake = now
    /\ lims' = [lims EXCEPT ![rt[p].lim] = [Refill(@, now) EXCEPT !.tokens = @ - 1]]
    /\ rt' = [rt EXCEPT ![p].state = "Waited", ![p].err = "nil"]
    /\ UNCHANGED <<wrapped, writer, readers, pc, loc, ret, rng, budget, nextId, taken, preClear>>
    /\ UNCHANGED <<dflt, dmux, logger, now>>
    /\ UNCHANGED cvars

\* The cancel signal has fired: Wait returns the cancellation failure.
WaitCancel(p) ==
    /\ rt[p].state = "Suspended"
    /\ rt[p].cancelled
    /\ rt' = [rt EXCEPT ![p].state = "Waited", ![p].err = "canceled"]
    /\ UNCHANGED <<wrapped, writer, readers, pc, loc, ret, rng, budget, nextId, taken, preClear>>
    /\ UNCHANGED <<dflt, dmux, logger, lims, now>>
    /\ UNCHANGED cvars

\* A tick of the clock; a timer that is due fires before the next tick.
Tick ==
    /\ now < MaxTime
    /\ \A p \in Procs : rt[p].state = "Suspended" => rt[p].wake # now
    /\ now' = now + 1
    /\ UNCHANGED <<wrapped, writer, readers, pc, loc, ret, rng, budget, nextId, taken, preClear>>
    /\ UNCHANGED <<dflt, dmux, logger, lims, rt>>
    /\ UNCHANGED cvars

\* ---------------------------------------------- PerKeyRoundTripper

\* The caller cancels the request's context, or its deadline passes.  Only
\* Wait reads the context: a cancellation before Wait is entered is one that
\* happens as Wait is entered, and one after Wait has returned changes nothing.
Cancel(p) ==
    /\ rt[p].state \in {"Wait", "Suspended"}
    /\ ~rt[p].cancelled
    /\ rt' = [rt EXCEPT ![p].cancelled = TRUE]
    /\ UNCHANGED <<wrapped, writer, readers, pc, loc, ret, rng, budget, nextId, taken, preClear>>
    /\ UNCHANGED <<dflt, dmux, logger, lims, now>>
    /\ UNCHANGED cvars

\* The caller sets the exported Logger field before it sends requests.
SetLogger ==
    /\ \A p \in Procs : rt[p].state = "none"
    /\ budget = MaxRequests
    /\ logger = "nil"
    /\ logger' \in {"discard", "set"}
    /\ UNCHANGED <<wrapped, writer, readers, pc, loc, ret, rng, budget, nextId, taken, preClear>>
    /\ UNCHANGED <<dflt, dmux, lims, now, rt>>
    /\ UNCHANGED cvars

\* RoundTrip(req) is called, and Limiter(req) in it, for a request with key
\* t.Key(req) = k; LimiterDefaults is about to take the shared lock.
StartRoundTrip(p) ==
    /\ rt[p].state \in {"none", "done"}
    /\ sd[p].state \in {"none", "got"}
    /\ pc[p] = "idle"
    /\ rng[p].state = "none"
    /\ budget > 0
    /\ budget' = budget - 1
    /\ \E k \in Keys : rt' = [rt EXCEPT ![p] = [NoRoundTrip EXCEPT !.state = "Defaults.RLock", !.key = k]]
    /\ UNCHANGED <<wrapped, writer, readers, pc, loc, ret, rng, nextId, taken, preClear>>
    /\ UNCHANGED <<dflt, dmux, logger, lims, now>>
    /\ UNCHANGED cvars

\* LimiterDefaults: t.mux.RLock()
DefaultsRLock(p) ==
    /\ rt[p].state = "Defaults.RLock"
    /\ dmux.writer = 0
    /\ dmux' = [dmux EXCEPT !.readers = @ \cup {p}]
    /\ rt' = [rt EXCEPT ![p].state = "Defaults.read"]
    /\ UNCHANGED <<wrapped, writer, readers, pc, loc, ret, rng, budget, nextId, taken, preClear>>
    /\ UNCHANGED <<dflt, logger, lims, now>>
    /\ UNCHANGED cvars

\* LimiterLoadOrStore looking every request up under one and the same key.
LimiterLoadOrStoreOneKey(p) ==
    /\ rt[p].state = "Defaults.read"
    /\ dmux' = [dmux EXCEPT !.readers = @ \ {p}]
    /\ lims' = Append(lims, NewLimiter(dflt.limit, dflt.burst))
    /\ Enter(p, "LoadOrStore", 1, Len(lims) + 1, Zero, "Load.RLock")
    /\ rt' = [rt EXCEPT ![p].state = "LoadOrStore"]
    /\ born' = Append(born, lastSet)
    /\ UNCHANGED <<rng, budget, dflt, logger, now, sd, given, lastSet>>

\* LimiterLoadOrStore leaving LimiterDefaults' shared lock held.
LimiterLoadOrStoreKeepsRLock(p) ==
    /\ rt[p].state = "Defaults.read"
    /\ lims' = Append(lims, NewLimiter(dflt.limit, dflt.burst))
    /\ Enter(p, "LoadOrStore", rt[p].key, Len(lims) + 1, Zero, "Load.RLock")
    /\ rt' = [rt EXCEPT ![p].state = "LoadOrStore"]
    /\ born' = Append(born, lastSet)
    /\ UNCHANGED <<rng, budget, dflt, dmux, logger, now, sd, given, lastSet>>

\* LimiterDefaults returns t.defaultLimit, t.defaultBurst and unlocks;
\* rate.NewLimiter makes a limiter of them, and LoadOrStore is entered with it.
LimiterLoadOrStore(p) ==
    /\ rt[p].state = "Defaults.read"
    /\ dmux' = [dmux EXCEPT !.readers = @ \ {p}]
    /\ lims' = Append(lims, NewLimiter(dflt.limit, dflt.burst))
    /\ Enter(p, "LoadOrStore", rt[p].key, Len(lims) + 1, Zero, "Load.RLock")
    /\ rt' = [rt EXCEPT ![p].state = "LoadOrStore"]
    /\ born' = Append(born, lastSet)
    /\ UNCHANGED <<rng, budget, dflt, logger, now, sd, given, lastSet>>

\* limiter, _ := t.limiters.LoadOrStore(...); return limiter; start := time.Now()
LimiterReturn(p) ==
    /\ rt[p].state = "LoadOrStore"
    /\ pc[p] = "idle"
    /\ rt' = [rt EXCEPT ![p].state = "Wait", ![p].lim = ret[p].val, ![p].start = now]
    /\ UNCHANGED <<wrapped, writer, readers, pc, loc, ret, rng, budget, nextId, taken, preClear>>
    /\ UNCHANGED <<dflt, dmux, logger, lims, now>>
    /\ UNCHANGED cvars

\* RoundTripAfterWait forwarding the request although Wait failed.
RoundTripAfterWaitIgnoresErr(p) ==
    /\ rt[p].state = "Waited"
    /\ rt' = [rt EXCEPT ![p].state = "Transport", ![p].sent = TRUE]
    /\ UNCHANGED <<wrapped, writer, readers, pc, loc, ret, rng, budget, nextId, taken, preClear>>
    /\ UNCHANGED <<dflt, dmux, logger, lims, now>>
    /\ UNCHANGED cvars

\* if err := limiter.Wait(req.Context()); err != nil { return nil, err }
\* wait := time.Since(start); defer ...; t.RoundTripper.RoundTrip(req) is called.
RoundTripAfterWait(p) ==
    /\ rt[p].state = "Waited"
    /\ IF rt[p].err # "nil"
       THEN rt' = [rt EXCEPT ![p] = [NoRoundTrip EXCEPT !.state = "done", !.err = rt[p].err,
                                                           !.result = rt[p].err]]
       ELSE rt' = [rt EXCEPT ![p].state = "Transport", ![p].sent = TRUE]
    /\ UNCHANGED <<wrapped, writer, readers, pc, loc, ret, rng, budget, nextId, taken, preClear>>
    /\ UNCHANGED <<dflt, dmux, logger, lims, now>>
    /\ UNCHANGED cvars

\* The transport returns a response or an error and the deferred function
\* runs: with a nil Logger, or one that writes to io.Discard, it returns and
\* RoundTrip returns what the transport returned; otherwise it calls
\* logger.Printf, which writes the trace line to the Logger's writer.
RoundTripReturn(p) ==
    /\ rt[p].state = "Transport"
    /\ \E r \in {"response", "error"} :
          IF logger = "set"
          THEN rt' = [rt EXCEPT ![p].state = "Printf", ![p].result = r, ![p].traced = TRUE]
          ELSE rt' = [rt EXCEPT ![p] = [NoRoundTrip EXCEPT !.state = "done", !.err = rt[p].err,
                                                           !.result = r, !.sent = TRUE]]
    /\ UNCHANGED <<wrapped, writer, readers, pc, loc, ret, rng, budget, nextId, taken, preClear>>
    /\ UNCHANGED <<dflt, dmux, logger, lims, now>>
    /\ UNCHANGED cvars

\* The Logger's writer finishes the Write, with or without an error, which
\* Printf drops; the deferred function returns and RoundTrip returns what the
\* transport returned.  The writer is the caller's: it may never finish.
SinkWrite(p) ==
    /\ rt[p].state = "Printf"
    /\ rt' = [rt EXCEPT ![p] = [NoRoundTrip EXCEPT !.state = "done", !.err = rt[p].err,
                                                  !.result = rt[p].result, !.sent = TRUE,
                                                  !.traced = TRUE]]
    /\ UNCHANGED <<wrapped, writer, readers, pc, loc, ret, rng, budget, nextId, taken, preClear>>
    /\ UNCHANGED <<dflt, dmux, logger, lims, now>>
    /\ UNCHANGED cvars

\* ------------------------------- LimiterDefaults, SetLimiterDefaults

\* A goroutine that is in no call of the round tripper calls one.
StartDefaultsCall(p, call) ==
    /\ sd[p].state \in {"none", "got"}
    /\ rt[p].state \in {"none", "done"}
    /\ pc[p] = "idle"
    /\ rng[p].state = "none"
    /\ budget > 0
    /\ budget' = budget - 1
    /\ sd' = [sd EXCEPT ![p] = call]
    /\ UNCHANGED <<wrapped, writer, readers, pc, loc, ret, rng, nextId, taken, preClear>>
    /\ UNCHANGED <<dflt, dmux, logger, lims, now, rt, lastSet, born>>

\* SetLimiterDefaults(limit, burst) is called.
StartSetLimiterDefaults(p) ==
    \E limit \in Limits, burst \in Bursts :
        /\ StartDefaultsCall(p, [state |-> "Set.Lock", limit |-> limit, burst |-> burst])
        /\ given' = given \cup {<<limit, burst>>}

\* A step of a defaults call: everything but the defaults, their mutex and
\* the call stays as it is.
DefaultsStep ==
    /\ UNCHANGED <<wrapped, writer, readers, pc, loc, ret, rng, budget, nextId, taken, preClear>>
    /\ UNCHANGED <<logger, lims, now, rt, given, born>>

\* SetDefaultsLock taking no lock.
SetDefaultsNoLock(p) ==
    /\ sd[p].state = "Set.Lock"
    /\ sd' = [sd EXCEPT ![p].state = "Set.limit"]
    /\ DefaultsStep
    /\ UNCHANGED <<dflt, dmux, lastSet>>

\* t.mux.Lock()
SetDefaultsLock(p) ==
    /\ sd[p].state = "Set.Lock"
    /\ dmux.writer = 0
    /\ dmux.readers = {}
    /\ dmux' = [dmux EXCEPT !.writer = p]
    /\ sd' = [sd EXCEPT ![p].state = "Set.limit"]
    /\ DefaultsStep
    /\ UNCHANGED <<dflt, lastSet>>

\* t.defaultLimit = limit
SetDefaultsLimit(p) ==
    /\ sd[p].state = "Set.limit"
    /\ dflt' = [dflt EXCEPT !.limit = sd[p].limit]
    /\ sd' = [sd EXCEPT ![p].state = "Set.burst"]
    /\ DefaultsStep
    /\ UNCHANGED <<dmux, lastSet>>

\* SetDefaultsBurst setting the limit and burst of the limiters in use as well.
SetDefaultsBurstOfAll(p) ==
    /\ sd[p].state = "Set.burst"
    /\ dflt' = [dflt EXCEPT !.burst = sd[p].burst]
    /\ dmux' = [dmux EXCEPT !.writer = 0]
    /\ lastSet' = <<sd[p].limit, sd[p].burst>>
    /\ sd' = [sd EXCEPT ![p] = NoDefaultsCall]
    /\ lims' = [i \in 1..Len(lims) |-> [lims[i] EXCEPT !.limit = sd[p].limit, !.burst = sd[p].burst]]
    /\ UNCHANGED <<wrapped, writer, readers, pc, loc, ret, rng, budget, nextId, taken, preClear>>
    /\ UNCHANGED <<logger, now, rt, given, born>>

\* t.defaultBurst = burst; the deferred t.mux.Unlock(); return
SetDefaultsBurst(p) ==
    /\ sd[p].state = "Set.burst"
    /\ dflt' = [dflt EXCEPT !.burst = sd[p].burst]
    /\ dmux' = [dmux EXCEPT !.writer = 0]
    /\ lastSet' = <<sd[p].limit, sd[p].burst>>
    /\ sd' = [sd EXCEPT ![p] = NoDefaultsCall]
    /\ DefaultsStep

\* LimiterDefaults() is called by the user of the round tripper.
StartLimiterDefaults(p) ==
    /\ StartDefaultsCall(p, [NoDefaultsCall EXCEPT !.state = "Get.RLock"])
    /\ UNCHANGED given

\* t.mux.RLock()
LimiterDefaultsRLock(p) ==
    /\ sd[p].state = "Get.RLock"
    /\ dmux.writer = 0
    /\ dmux' = [dmux EXCEPT !.readers = @ \cup {p}]
    /\ sd' = [sd EXCEPT ![p].state = "Get.read"]
    /\ DefaultsStep
    /\ UNCHANGED <<dflt, lastSet>>

\* return t.defaultLimit, t.defaultBurst; the deferred t.mux.RUnlock()
LimiterDefaultsReturn(p) ==
    /\ sd[p].state = "Get.read"
    /\ dmux' = [dmux EXCEPT !.readers = @ \ {p}]
    /\ sd' = [sd EXCEPT ![p] = [state |-> "got", limit |-> dflt.limit, burst |-> dflt.burst]]
    /\ DefaultsStep
    /\ UNCHANGED <<dflt, lastSet>>

\* The defaults are read and set while requests go through RoundTrip; the
\* clock stands still.
NextDefaults ==
    \E p \in Procs :
        \/ StartSetLimiterDefaults(p) \/ SetDefaultsLock(p) \/ SetDefaultsLimit(p) \/ SetDefaultsBurst(p)
        \/ StartLimiterDefaults(p) \/ LimiterDefaultsRLock(p) \/ LimiterDefaultsReturn(p)
        \/ StartRoundTrip(p) \/ DefaultsRLock(p) \/ LimiterLoadOrStore(p)
        \/ RLock(p) \/ Lock(p) \/ LoadOrStoreLoad(p) \/ LoadOrStoreBody(p)
        \/ LimiterReturn(p)
        \/ WaitBegin(p) \/ RoundTripAfterWait(p) \/ RoundTripReturn(p)

\* A PerKeyRoundTripper made with any defaults, whose requests go through
\* RoundTrip while the clock runs.
InitRoundTrip ==
    /\ New
    /\ pc = [p \in Procs |-> "idle"]
    /\ loc = [p \in Procs |-> LocIdle]
    /\ ret = [p \in Procs |-> NoRet]
    /\ rng = [p \in Procs |-> NoRange]
    /\ budget = MaxRequests
    /\ nextId = 1
    /\ taken = {}
    /\ preClear = {}
    /\ \E limit \in Limits, burst \in Bursts : NewPerKeyRoundTripper(limit, burst)

NextRoundTrip ==
    \/ Tick
    \/ SetLogger
    \/ \E p \in Procs :
        \/ StartRoundTrip(p) \/ DefaultsRLock(p) \/ LimiterLoadOrStore(p)
        \/ RLock(p) \/ Lock(p) \/ LoadOrStoreLoad(p) \/ LoadOrStoreBody(p)
        \/ LimiterReturn(p)
        \/ WaitBegin(p) \/ WaitExpire(p) \/ WaitCancel(p) \/ Cancel(p)
        \/ RoundTripAfterWait(p) \/ RoundTripReturn(p) \/ SinkWrite(p)

SpecRoundTrip == InitRoundTrip /\ [][NextRoundTrip]_vars

SpecDefaults == InitRoundTrip /\ [][NextDefaults]_vars

\* ------------------------------------------------------------- claims

\* The step in which p's call of method op returns.
Returns(p, op) == loc[p].op = op /\ pc'[p] = "idle" /\ ret'[p].op = op

\* The step in which p's Range call returns.
RangeReturns(p) == rng[p].state # "none" /\ rng'[p].state = "none"

Elems(s) == {s[i] : i \in 1..Len(s)}

\* C1: racing LoadOrStore calls on a key nobody deletes or swaps: a key is
\* installed once and never overwritten, the one call whose step installs it
\* is the only one to return loaded = false, with its own value, and every call
\* returns the instance that is stored for the key when it returns.
C1_SingleWinner ==
    [][/\ \A k \in Keys : wrapped[k].present => wrapped'[k] = wrapped[k]
       /\ \A p \in Procs : Returns(p, "LoadOrStore") =>
             LET r == ret'[p]
                 k == r.key
             IN /\ wrapped'[k] = NewEntry(r.val, r.id)
                /\ r.ok <=> wrapped[k].present
                /\ ~r.ok => r.val = loc[p].value]_vars

\* C1: a caller whose optimistic Load missed the key waits for the exclusive
\* lock while another caller's different value is already stored.
C1_Witness ==
    \E p \in Procs :
        /\ pc[p] = "LoadOrStore.Lock"
        /\ wrapped[loc[p].key].present
        /\ wrapped[loc[p].key].val # loc[p].value

\* C2 (as claimed): CompareAndSwap(k, old, new) returns true only when k holds
\* a value equal to old, which it replaces by new; when it returns false, and
\* when k is absent, the map and its key set are unchanged.
C2_SwapsOnlyStoredValue ==
    [][\A p \in Procs : Returns(p, "CompareAndSwap") =>
          LET k == loc[p].key
          IN IF ret'[p].ok
             THEN /\ wrapped[k].present
                  /\ wrapped[k].val = loc[p].old
                  /\ wrapped'[k].present
                  /\ wrapped'[k].val = loc[p].value
                  /\ \A j \in Keys \ {k} : wrapped'[j] = wrapped[j]
             ELSE wrapped' = wrapped]_vars

\* C6: a Range call never passes a key to f twice, and when it returns without
\* f having stopped it before the last key, every key that stayed in the map
\* from the call to the return has been passed to f.
C6_RangeVisitsOnce ==
    [][\A p \in Procs :
          /\ Cardinality(Elems(rng'[p].visited)) = Len(rng'[p].visited)
          /\ (RangeReturns(p) /\ ~(rng[p].state = "visit" /\ Len(rng[p].keys) > 1))
                => rng[p].stable \subseteq Elems(rng[p].visited)]_vars

\* C6: f runs for the second key of a Range call, and only one key has been in
\* the map all through the call.
C6_Witness ==
    \E p \in Procs :
        /\ rng[p].state = "visit"
        /\ Len(rng[p].visited) = 2
        /\ Cardinality(rng[p].stable) = 1

\* The positions at which a goroutine holds the mutex and reads or writes the map.
ReadPcs == {"Load.read", "Keys.read"}

BodyPcs == {BodyOf(at) : at \in LockPcs}

\* A step of a call that is in progress.
Progress(p) ==
    \/ RLock(p) \/ Lock(p) \/ LoadReturn(p) \/ SwapBody(p)
    \/ LoadAndDeleteLoad(p) \/ LoadAndDeleteBody(p)
    \/ LoadOrStoreLoad(p) \/ LoadOrStoreBody(p)
    \/ CompareAndSwapLoad(p) \/ CompareAndSwapBody(p)
    \/ CompareAndDeleteLoad(p) \/ CompareAndDeleteBody(p)
    \/ KeysReturn(p) \/ RangeKeys(p) \/ RangeLoad(p) \/ VisitReturn(p)
    \/ ClearBody(p) \/ CallReturn(p)

\* C7: a goroutine between two calls, and so one whose Range callback f is
\* running, holds the mutex in neither mode; whoever holds it is at a position
\* where it reads or writes the map and releases it; and while any call or
\* callback is in progress some call can take a step.
C7_RangeHoldsNoLock ==
    /\ \A p \in Procs : pc[p] = "idle" => writer # p /\ p \notin readers
    /\ \A p \in readers : pc[p] \in ReadPcs
    /\ writer # 0 => pc[writer] \in BodyPcs
    /\ (\E p \in Procs : pc[p] # "idle" \/ rng[p].state # "none") => ENABLED (\E p \in Procs : Progress(p))

\* C7: the callback of p's Range call holds the exclusive lock, inside a Store,
\* Delete, Clear or Call it issued itself, while another goroutine is in a call.
C7_Witness ==
    \E p, q \in Procs :
        /\ rng[p].state = "visit"
        /\ writer = p
        /\ q # p
        /\ pc[q] # "idle"

\* C8: a key that a Clear discarded and that was not inserted since is not in
\* the map: no Load that returns finds it and no Keys that returns lists it;
\* and Clear replaces the map while no reader holds the mutex.
C8_ClearDropsAll ==
    [][/\ \A k \in preClear' : ~wrapped'[k].present
       /\ (\E p \in Procs : pc'[p] = "Clear.body") => readers' = {}
       /\ \A p \in Procs :
             /\ Returns(p, "Load") /\ ret'[p].ok => ret'[p].key \notin preClear
             /\ Returns(p, "Keys") => Elems(ret'[p].keys) \cap preClear = {}]_vars

\* C8: Keys returned nothing after a Clear discarded both keys of the map.
C8_Witness ==
    \E p \in Procs :
        /\ ret[p].op = "Keys"
        /\ ret[p].keys = <<>>
        /\ Cardinality(preClear) = 2

\* The positions at which a goroutine reads or writes the map.
AccessPcs == ReadPcs \cup BodyPcs

\* C9: while the function given to Call runs, its goroutine holds the mutex
\* exclusively, no other goroutine is at a position where it reads or writes
\* the map, and a step that changes the map is a statement of that function.
C9_CallExclusive ==
    [][\A p \in Procs : pc[p] = "Call.body" =>
          /\ writer = p
          /\ readers = {}
          /\ \A q \in Procs \ {p} : pc[q] \notin AccessPcs
          /\ wrapped' # wrapped => pc'[p] = "Call.body"]_vars

\* C9: the function given to Call has executed two statements on the map and
\* is still running while another goroutine waits for the mutex.
C9_Witness ==
    \E p, q \in Procs :
        /\ pc[p] = "Call.body"
        /\ loc[p].n = 2
        /\ pc[q] \in LockPcs \cup {"Load.RLock", "Keys.RLock"}

\* C10: a LoadAndDelete that returns loaded = true returns the instance its
\* own step removed from the map, which no LoadAndDelete returned before; one
\* that returns loaded = false leaves the map as it is.
C10_LoadAndDeleteAtomic ==
    [][\A p \in Procs : Returns(p, "LoadAndDelete") =>
          LET r == ret'[p]
              k == r.key
          IN IF r.ok
             THEN /\ wrapped[k] = NewEntry(r.val, r.id)
                  /\ ~wrapped'[k].present
                  /\ r.id \notin taken
             ELSE wrapped' = wrapped]_vars

\* C10: a LoadAndDelete has returned an instance while another LoadAndDelete,
\* whose optimistic Load read that same instance, is on its way to the
\* exclusive lock.
C10_Witness ==
    \E p, q \in Procs :
        /\ ret[p].op = "LoadAndDelete"
        /\ ret[p].ok
        /\ pc[q] \in {"LoadAndDelete.Lock", "LoadAndDelete.body"}
        /\ loc[q].op = "LoadAndDelete"
        /\ loc[q].got = NewEntry(ret[p].val, ret[p].id)

\* C4 (as claimed): the token level of every bucket is at least 0 and at most
\* its capacity in every reachable state.
C4_TokensWithinCapacity ==
    \A i \in 1..Len(lims) : 0 <= lims[i].tokens /\ lims[i].tokens <= lims[i].burst

\* C5: a RoundTrip whose Wait returned the cancellation error has not called
\* the transport and has printed no trace line, goes nowhere but to its return,
\* and returns that error.
C5_CancelledNotForwarded ==
    \A p \in Procs : rt[p].err = "canceled" =>
        /\ ~rt[p].sent
        /\ ~rt[p].traced
        /\ rt[p].state \in {"Waited", "done"}
        /\ rt[p].state = "done" => rt[p].result = "canceled"

\* C5: with a Logger set, one RoundTrip has returned the cancellation error
\* and another has been forwarded and traced.
C5_Witness ==
    \E p, q \in Procs :
        /\ logger = "set"
        /\ rt[p].state = "done"
        /\ rt[p].result = "canceled"
        /\ rt[q].traced

\* The limiters the map holds.
Registered == {wrapped[k].val : k \in Dom(wrapped)}

\* C11: the limiter Limiter(req) returned is the one the map holds under
\* Key(req), so the RoundTrips of one key that run together use one limiter;
\* a limiter that is not in the map is in no RoundTrip's hands and is as
\* rate.NewLimiter made it, never debited.  (SpecRoundTrip: nothing deletes,
\* swaps or clears.)
C11_LimiterIsRegistered ==
    /\ \A p \in Procs : rt[p].lim # 0 =>
          /\ wrapped[rt[p].key].present
          /\ wrapped[rt[p].key].val = rt[p].lim
    /\ \A p, q \in Procs :
          rt[p].lim # 0 /\ rt[q].lim # 0 /\ rt[p].key = rt[q].key => rt[p].lim = rt[q].lim
    /\ \A i \in (1..Len(lims)) \ Registered :
          /\ lims[i].tokens = lims[i].burst
          /\ \A p \in Procs : rt[p].lim # i

\* C11: two RoundTrips of one key raced to create its limiter; one limiter was
\* discarded, and both wait on the other one, one of them suspended.
C11_Witness ==
    \E p, q \in Procs :
        /\ p # q
        /\ rt[p].lim # 0
        /\ rt[p].lim = rt[q].lim
        /\ rt[p].state = "Suspended"
        /\ rt[q].state = "Waited"
        /\ Len(lims) = 2
        /\ Cardinality(Registered) = 1

Pair(b) == <<b.limit, b.burst>>

\* C12: no step of a SetLimiterDefaults or LimiterDefaults call touches the
\* map or a limiter; every limiter has, for good, the limit and burst that
\* were the defaults when it was made, which are those of the last
\* SetLimiterDefaults that had returned by then (or the constructor's).
C12_DefaultsOnlyForNewLimiters ==
    [][/\ sd' # sd => wrapped' = wrapped /\ lims' = lims
       /\ \A i \in 1..Len(lims') : Pair(lims'[i]) = born'[i]
       /\ \A i \in 1..Len(lims) : born'[i] = born[i]]_vars

\* C12: the limiter of one key was made and debited before a
\* SetLimiterDefaults with other values returned, and the limiter of the other
\* key was made after it.
C12_Witness ==
    /\ Len(lims) = 2
    /\ Cardinality(Registered) = 2
    /\ Pair(lims[1]) # Pair(lims[2])
    /\ Pair(lims[2]) = lastSet
    /\ lims[1].tokens < lims[1].burst

\* C20: a pair LimiterDefaults returned, and the pair of every limiter made,
\* is the constructor's pair or the pair of one SetLimiterDefaults call.
C20_DefaultsPairWhole ==
    /\ \A p \in Procs : sd[p].state = "got" => <<sd[p].limit, sd[p].burst>> \in given
    /\ \A i \in 1..Len(lims) : Pair(lims[i]) \in given

\* C20: LimiterDefaults returned the pair of a SetLimiterDefaults call while
\* another SetLimiterDefaults has set the limit and not yet the burst, so that
\* the fields hold the limit of one call and the burst of another.
C20_Witness ==
    \E p, q \in Procs :
        /\ sd[p].state = "got"
        /\ <<sd[p].limit, sd[p].burst>> = lastSet
        /\ sd[q].state = "Set.burst"
        /\ Pair(dflt) \notin given

\* The RoundTrips whose Wait has returned success.
Admitted(p) == rt[p].state \in {"Waited", "Transport", "Printf"} /\ rt[p].err = "nil"

\* C13: on a limiter of burst 1 that refills one token per tick (a tick is
\* the 200ms of the scenario), the waits of two requests that were suspended
\* do not end at the same instant: each admission is one refill interval
\* after the one before, no two on one token.
C13_AdmissionsSpaced ==
    \A p, q \in Procs :
        /\ p # q
        /\ Admitted(p) /\ Admitted(q)
        /\ rt[p].lim = rt[q].lim
        /\ lims[rt[p].lim].limit = 1 /\ lims[rt[p].lim].burst = 1
        /\ rt[p].wake # 0 /\ rt[q].wake # 0
        => rt[p].wake # rt[q].wake

\* The goroutines that are in a RoundTrip.
InRoundTrip == {p \in Procs : rt[p].state \notin {"none", "done"}}

\* C14: the keys of the map have limiters of their own, and a limiter
\* changes only in a step of a RoundTrip whose key it is registered under;
\* when every request so far has a key of its own and the limiters have a
\* burst of one or more, no request is suspended and each is admitted with no
\* wait.
C14_KeysIndependent ==
    [][/\ \A k1, k2 \in Dom(wrapped') : k1 # k2 => wrapped'[k1].val # wrapped'[k2].val
       /\ \A i \in 1..Len(lims) : lims'[i] # lims[i] =>
             \E p \in Procs : /\ rt'[p] # rt[p]
                              /\ rt[p].lim = i
                              /\ wrapped[rt[p].key].present
                              /\ wrapped[rt[p].key].val = i
       /\ (/\ Cardinality(InRoundTrip') = MaxRequests - budget'
           /\ \A p, q \in InRoundTrip' : p # q => rt'[p].key # rt'[q].key
           /\ dflt'.burst >= 1)
          => \A p \in InRoundTrip' : rt'[p].state # "Suspended" /\ rt'[p].wake = 0]_vars

\* C14: two requests with different keys, on limiters of burst 1 and rate 1,
\* are past Wait together, each having debited the limiter of its key.
C14_Witness ==
    \E p, q \in Procs :
        /\ rt[p].key # rt[q].key
        /\ Admitted(p) /\ Admitted(q)
        /\ rt[p].lim # rt[q].lim
        /\ \A i \in {rt[p].lim, rt[q].lim} : Pair(lims[i]) = <<1, 1>> /\ lims[i].tokens = 0

\* C15: a RoundTrip whose limiter has the limit rate.Inf, whatever its burst,
\* is never suspended in Wait and Wait does not fail: it is admitted with no
\* wait, however many requests there are.
C15_InfAdmitsAtOnce ==
    \A p \in Procs : rt[p].lim # 0 /\ lims[rt[p].lim].limit = Inf =>
        /\ rt[p].state # "Suspended"
        /\ rt[p].wake = 0
        /\ rt[p].err \in {"none", "nil"}

\* C15: the requests of two goroutines are past Wait together on one limiter
\* of limit rate.Inf and burst 0, after an earlier request on it.
C15_Witness ==
    \E p, q \in Procs :
        /\ p # q
        /\ Admitted(p) /\ Admitted(q)
        /\ rt[p].lim = rt[q].lim
        /\ Pair(lims[rt[p].lim]) = <<Inf, 0>>
        /\ budget = 0

\* C17: on a limiter of limit 0 Wait succeeds only by taking a token that is
\* there, so that no more than burst requests are ever admitted; Wait on the
\* empty bucket suspends, and the suspended Wait ends only when the cancel
\* signal has fired, with the cancellation error.
C17_ZeroRateNeverRefills ==
    [][\A p \in Procs : rt[p].lim # 0 /\ lims[rt[p].lim].limit = 0 =>
          LET i == rt[p].lim
          IN /\ lims'[i].tokens >= 0
             /\ lims'[i].tokens <= lims[i].tokens
             /\ rt[p].state = "Wait" /\ rt'[p].state = "Waited" =>
                   /\ lims[i].tokens >= 1
                   /\ lims'[i].tokens = lims[i].tokens - 1
                   /\ rt'[p].err = "nil"
             /\ rt[p].state = "Wait" /\ rt'[p].state # "Wait" /\ lims[i].tokens = 0 =>
                   rt'[p].state = "Suspended"
             /\ rt[p].state = "Suspended" /\ rt'[p].state # "Suspended" =>
                   /\ rt[p].cancelled
                   /\ rt'[p].state = "Waited"
                   /\ rt'[p].err = "canceled"]_vars

\* C17: after the one token of a limiter of limit 0 was taken, a later Wait
\* on it was suspended across a tick of the clock and ended by cancellation.
C17_Witness ==
    \E p \in Procs :
        /\ rt[p].state = "Waited"
        /\ rt[p].err = "canceled"
        /\ Pair(lims[rt[p].lim]) = <<0, 1>>
        /\ lims[rt[p].lim].tokens = 0
        /\ now > rt[p].start

\* The steps of its RoundTrip that goroutine p takes itself, the Write of the
\* Logger's writer not among them.
RoundTripStep(p) ==
    \/ DefaultsRLock(p) \/ LimiterLoadOrStore(p) \/ LimiterReturn(p)
    \/ RLock(p) \/ Lock(p) \/ LoadOrStoreLoad(p) \/ LoadOrStoreBody(p)
    \/ WaitBegin(p) \/ WaitExpire(p) \/ WaitCancel(p)
    \/ RoundTripAfterWait(p) \/ RoundTripReturn(p)

\* C16: a RoundTrip whose transport call has returned does not wait for the
\* trace sink: while the Logger's writer has not finished the Write, the
\* RoundTrip can go on to its return by a step of its own.
C16_ReturnDoesNotWaitForSink ==
    \A p \in Procs : rt[p].state = "Printf" => ENABLED RoundTripStep(p)

\* C18: on a limiter of burst 0 and limit one token per tick no request is
\* admitted with no wait: a Wait that returned success was suspended for one
\* tick or more; and the tokens stay within 0 and the burst.
C18_ZeroBurstWaitsAnInterval ==
    \A p \in Procs : rt[p].lim # 0 /\ Pair(lims[rt[p].lim]) = <<1, 0>> =>
        /\ Admitted(p) => rt[p].wake >= rt[p].start + 1
        /\ 0 <= lims[rt[p].lim].tokens
        /\ lims[rt[p].lim].tokens <= lims[rt[p].lim].burst

\* The goroutines suspended in Wait, inside the transport call or inside the
\* trace write.
Waiting == {p \in Procs : rt[p].state \in {"Suspended", "Transport", "Printf"}}

\* C19: a goroutine that is suspended in Wait or is inside the transport call
\* holds neither the map's mutex nor the mutex of the defaults; and when all
\* the other goroutines are waiting so, or idle, a goroutine that is about to
\* take either mutex can take it.
C19_NoLockWhileWaiting ==
    /\ \A p \in Waiting :
          /\ writer # p /\ p \notin readers
          /\ dmux.writer # p /\ p \notin dmux.readers
    /\ \A q \in Procs :
          (\A p \in Procs \ {q} : p \in Waiting \/ rt[p].state \in {"none", "done"}) =>
              /\ pc[q] \in {"Load.RLock", "LoadOrStore.Lock"} => ENABLED (RLock(q) \/ Lock(q))
              /\ rt[q].state = "Defaults.RLock" => ENABLED DefaultsRLock(q)

\* C19: one request is suspended in Wait while another goroutine holds the
\* exclusive lock of the map to store the limiter of another key.
C19_Witness ==
    \E p, q \in Procs :
        /\ rt[p].state = "Suspended"
        /\ writer = q
        /\ loc[q].key # rt[p].key

=============================================================================
